---- MODULE Spec2Model ----
(***************************************************************************)
(* Model of scripts/enhance_winget_fields.py: the WinGet installer         *)
(* manifest enhancer.  The file is a string of characters; the script      *)
(* reads it into lines (text mode, universal newlines), inserts the        *)
(* missing fields at the PackageVersion / Installers anchors, validates    *)
(* the joined text and rewrites the file in place.  Opening, reading and   *)
(* writing the file can fail (OSError); those are environment choices.     *)
(* Text-mode writing is modelled for a POSIX host (os.linesep = "\n").     *)
(***************************************************************************)
EXTENDS Integers, Sequences, FiniteSets, TLC

VARIABLES file, pc, lines, has_min_os, has_platform, has_commands,
          result, origin, exit, err, errField, orig, run, openedW

vars == <<file, pc, lines, has_min_os, has_platform, has_commands,
          result, origin, exit, err, errField, orig, run, openedW>>

\* ---------------------------------------------------------------- bounds
MaxLines == 4          \* number of lines of the manifest the run starts from

\* ------------------------------------------------------------- literals
ManifestTypePrefix == "ManifestType: installer"
PackageVersionPrefix == "PackageVersion:"
InstallersPrefix == "Installers:"
MinOSField == "MinimumOSVersion:"
PlatformField == "Platform:"
CommandsField == "Commands:"

MinOSLine == "MinimumOSVersion: 10.0.17763.0\n"
PlatformLine == "Platform:\n"
PlatformItem == "  - Windows.Desktop\n"
CommandsLine == "Commands:\n"
CommandsItem == "  - invowk\n"

Fields == <<MinOSField, PlatformField, CommandsField>>

\* Lines a manifest under test is made of: the type marker, the two anchors,
\* an installer entry, the three top-level fields, and a field nested below an
\* installer entry (indented, so it does not start the line).
InputLines ==
    { "ManifestType: installer\n",
      "PackageVersion: 1.2.3\n",
      "Installers:\n",
      "- Arch: x64\n",
      MinOSLine,
      PlatformLine,
      CommandsLine,
      "  MinimumOSVersion: 10.0.0.0\n" }

\* len(sys.argv) the script may be started with
ArgCounts == {1, 2, 3}

\* --------------------------------------------------- string primitives
\* str.startswith(p)
StartsWith(s, p) == Len(s) >= Len(p) /\ SubSeq(s, 1, Len(p)) = p

\* p in s
Contains(s, p) ==
    \E i \in 1..(Len(s) - Len(p) + 1) : SubSeq(s, i, i + Len(p) - 1) = p

\* any(l.startswith(p) for l in ls)
AnyStartsWith(ls, p) == \E i \in 1..Len(ls) : StartsWith(ls[i], p)

\* "".join(ls)
RECURSIVE Join(_)
Join(ls) == IF ls = <<>> THEN "" ELSE Head(ls) \o Join(Tail(ls))

\* f.readlines() on a text-mode file opened with the default newline=None:
\* "\r\n" and a lone "\r" are translated to "\n", the text is split after
\* every "\n" and the terminator is kept; a last line without a terminator
\* is returned as it is.
CharAt(text, i) == SubSeq(text, i, i)

\* Positions at which a line of the text ends: a "\n", or a "\r" that is not
\* the first half of a "\r\n".
LineEnds(text) ==
    { i \in 1..Len(text) :
        \/ CharAt(text, i) = "\n"
        \/ CharAt(text, i) = "\r" /\ ~(i < Len(text) /\ CharAt(text, i + 1) = "\n") }

\* The characters start..end of the text as one line, its terminator
\* translated to "\n".
TranslateLine(text, start, end) ==
    IF CharAt(text, end) = "\r"
    THEN SubSeq(text, start, end - 1) \o "\n"
    ELSE IF end > start /\ CharAt(text, end - 1) = "\r"
    THEN SubSeq(text, start, end - 2) \o "\n"
    ELSE SubSeq(text, start, end)

ReadLines(text) ==
    LET E == LineEnds(text)
        nth(k) == CHOOSE e \in E : Cardinality({ b \in E : b < e }) = k - 1
        last == IF E = {} THEN 0 ELSE nth(Cardinality(E))
        full == [k \in 1..Cardinality(E) |->
                   TranslateLine(text, IF k = 1 THEN 1 ELSE nth(k - 1) + 1, nth(k))]
    IN IF last < Len(text)
       THEN Append(full, SubSeq(text, last + 1, Len(text)))
       ELSE full

\* f.writelines(ls) on a text-mode file: the lines are written one after the
\* other, no separator is added ("\n" is os.linesep on the host modelled).
WriteLines(ls) == Join(ls)

\* Mutant of IsInstallerManifest: the guard looks for the word "Installer"
\* anywhere in a line instead of the "ManifestType: installer" prefix.
IsInstallerManifest_AnyInstaller(ls) == \E i \in 1..Len(ls) : Contains(ls[i], "Installer")

\* any(l.startswith("ManifestType: installer") for l in lines)
IsInstallerManifest(ls) == AnyStartsWith(ls, ManifestTypePrefix)

\* ------------------------------------------------------- the edit pass
\* Mutant of EmitFor: MinimumOSVersion is appended at the anchor whether or
\* not the file already has it.
EmitFor_MinOSUngated(line, idx, hm, hp, hc) ==
    IF StartsWith(line, PackageVersionPrefix) /\ (~hm \/ ~hp)
    THEN <<<<line, idx>>, <<MinOSLine, 0>>>>
         \o (IF ~hp THEN <<<<PlatformLine, 0>>, <<PlatformItem, 0>>>> ELSE <<>>)
    ELSE IF StartsWith(line, InstallersPrefix) /\ ~hc
    THEN <<<<CommandsLine, 0>>, <<CommandsItem, 0>>, <<line, idx>>>>
    ELSE <<<<line, idx>>>>

\* Mutant of EmitFor: the Commands block is appended after the Installers
\* line instead of before it.
EmitFor_CommandsAfter(line, idx, hm, hp, hc) ==
    IF StartsWith(line, PackageVersionPrefix) /\ (~hm \/ ~hp)
    THEN <<<<line, idx>>>>
         \o (IF ~hm THEN <<<<MinOSLine, 0>>>> ELSE <<>>)
         \o (IF ~hp THEN <<<<PlatformLine, 0>>, <<PlatformItem, 0>>>> ELSE <<>>)
    ELSE IF StartsWith(line, InstallersPrefix) /\ ~hc
    THEN <<<<line, idx>>, <<CommandsLine, 0>>, <<CommandsItem, 0>>>>
    ELSE <<<<line, idx>>>>

\* Mutant of EmitFor: the Platform block is gated by has_min_os instead of
\* has_platform.
EmitFor_PlatformByMinOS(line, idx, hm, hp, hc) ==
    IF StartsWith(line, PackageVersionPrefix) /\ (~hm \/ ~hp)
    THEN <<<<line, idx>>>>
         \o (IF ~hm THEN <<<<MinOSLine, 0>>>> ELSE <<>>)
         \o (IF ~hm THEN <<<<PlatformLine, 0>>, <<PlatformItem, 0>>>> ELSE <<>>)
    ELSE IF StartsWith(line, InstallersPrefix) /\ ~hc
    THEN <<<<CommandsLine, 0>>, <<CommandsItem, 0>>, <<line, idx>>>>
    ELSE <<<<line, idx>>>>

\* Mutant of EmitFor: the Commands block is appended at the Installers line
\* whether or not the file already has a Commands line.
EmitFor_CommandsUngated(line, idx, hm, hp, hc) ==
    IF StartsWith(line, PackageVersionPrefix) /\ (~hm \/ ~hp)
    THEN <<<<line, idx>>>>
         \o (IF ~hm THEN <<<<MinOSLine, 0>>>> ELSE <<>>)
         \o (IF ~hp THEN <<<<PlatformLine, 0>>, <<PlatformItem, 0>>>> ELSE <<>>)
    ELSE IF StartsWith(line, InstallersPrefix)
    THEN <<<<CommandsLine, 0>>, <<CommandsItem, 0>>, <<line, idx>>>>
    ELSE <<<<line, idx>>>>

\* Mutant of EmitFor: the Installers branch appends the Commands block and
\* forgets the Installers line itself.
EmitFor_AnchorDropped(line, idx, hm, hp, hc) ==
    IF StartsWith(line, PackageVersionPrefix) /\ (~hm \/ ~hp)
    THEN <<<<line, idx>>>>
         \o (IF ~hm THEN <<<<MinOSLine, 0>>>> ELSE <<>>)
         \o (IF ~hp THEN <<<<PlatformLine, 0>>, <<PlatformItem, 0>>>> ELSE <<>>)
    ELSE IF StartsWith(line, InstallersPrefix) /\ ~hc
    THEN <<<<CommandsLine, 0>>, <<CommandsItem, 0>>>>
    ELSE <<<<line, idx>>>>

\* What the loop body appends to result for one original line; every
\* appended string is paired with the index of the original line it is
\* (0 for an inserted literal).
EmitFor(line, idx, hm, hp, hc) ==
    IF StartsWith(line, PackageVersionPrefix) /\ (~hm \/ ~hp)
    THEN <<<<line, idx>>>>
         \o (IF ~hm THEN <<<<MinOSLine, 0>>>> ELSE <<>>)
         \o (IF ~hp THEN <<<<PlatformLine, 0>>, <<PlatformItem, 0>>>> ELSE <<>>)
    ELSE IF StartsWith(line, InstallersPrefix) /\ ~hc
    THEN <<<<CommandsLine, 0>>, <<CommandsItem, 0>>, <<line, idx>>>>
    ELSE <<<<line, idx>>>>

RECURSIVE EditFrom(_, _, _, _, _)
EditFrom(ls, i, hm, hp, hc) ==
    IF i > Len(ls) THEN <<>>
    ELSE EmitFor(ls[i], i, hm, hp, hc) \o EditFrom(ls, i + 1, hm, hp, hc)

EditPass(ls, hm, hp, hc) == EditFrom(ls, 1, hm, hp, hc)

\* Mutant of FirstMissing: the validation loop goes through the fields in
\* the opposite order.
FirstMissing_Reversed(text) ==
    IF ~Contains(text, CommandsField) THEN CommandsField
    ELSE IF ~Contains(text, PlatformField) THEN PlatformField
    ELSE IF ~Contains(text, MinOSField) THEN MinOSField
    ELSE ""

\* First field, in the order of the validation loop, that is not a substring
\* of the text; "" when all three are there.
RECURSIVE FirstMissingFrom(_, _)
FirstMissingFrom(text, k) ==
    IF k > Len(Fields) THEN ""
    ELSE IF ~Contains(text, Fields[k]) THEN Fields[k]
    ELSE FirstMissingFrom(text, k + 1)

FirstMissing(text) == FirstMissingFrom(text, 1)

\* ------------------------------------------------------------ the state
\* The text without its last character (a last line that is not terminated).
Chop(text) == IF text = "" THEN "" ELSE SubSeq(text, 1, Len(text) - 1)

\* The lines with "\r\n" for every "\n" (a manifest generated on Windows).
CRLF(ls) == [k \in 1..Len(ls) |-> Chop(ls[k]) \o "\r\n"]

\* How the lines of a manifest under test are laid out in the file:
\* "\n"-terminated, the same with the last terminator missing, or
\* "\r\n"-terminated.
Layouts == {"lf", "unterminated", "crlf"}

FileOf(ls, layout) ==
    IF layout = "lf" THEN Join(ls)
    ELSE IF layout = "unterminated" THEN Chop(Join(ls))
    ELSE Join(CRLF(ls))

Init ==
    /\ \E n \in 0..MaxLines : \E ls \in [1..n -> InputLines] : \E layout \in Layouts :
          file = FileOf(ls, layout)
    /\ orig = file
    /\ pc = "main"
    /\ lines = <<>>
    /\ has_min_os = FALSE
    /\ has_platform = FALSE
    /\ has_commands = FALSE
    /\ result = <<>>
    /\ origin = <<>>
    /\ exit = -1
    /\ err = "none"
    /\ errField = ""
    /\ run = 1
    /\ openedW = FALSE

\* sys.exit(1) after the message of the given kind.
Fail(kind, field) ==
    /\ pc' = "done"
    /\ exit' = 1
    /\ err' = kind
    /\ errField' = field

\* __main__: len(sys.argv) != 2
MainUsage ==
    /\ pc = "main"
    /\ \E nargs \in ArgCounts : nargs # 2
    /\ Fail("usage", "")
    /\ UNCHANGED <<file, lines, has_min_os, has_platform, has_commands,
                   result, origin, orig, run, openedW>>

\* __main__: enhance(sys.argv[1])
MainCall ==
    /\ pc = "main"
    /\ \E nargs \in ArgCounts : nargs = 2
    /\ pc' = "read"
    /\ UNCHANGED <<file, lines, has_min_os, has_platform, has_commands,
                   result, origin, exit, err, errField, orig, run, openedW>>

\* open(filepath) / f.readlines() succeed
ReadOk ==
    /\ pc = "read"
    /\ lines' = ReadLines(file)
    /\ pc' = "type"
    /\ UNCHANGED <<file, has_min_os, has_platform, has_commands,
                   result, origin, exit, err, errField, orig, run, openedW>>

\* open(filepath) / f.readlines() raise OSError
ReadFail ==
    /\ pc = "read"
    /\ Fail("read", "")
    /\ UNCHANGED <<file, lines, has_min_os, has_platform, has_commands,
                   result, origin, orig, run, openedW>>

\* the ManifestType guard
TypeGuard ==
    /\ pc = "type"
    /\ IF ~IsInstallerManifest(lines)
       THEN Fail("type", "")
       ELSE /\ pc' = "edit"
            /\ UNCHANGED <<exit, err, errField>>
    /\ UNCHANGED <<file, lines, has_min_os, has_platform, has_commands,
                   result, origin, orig, run, openedW>>

\* the presence flags and the single pass over the original lines
Edit ==
    /\ pc = "edit"
    /\ LET hm == AnyStartsWith(lines, MinOSField)
           hp == AnyStartsWith(lines, PlatformField)
           hc == AnyStartsWith(lines, CommandsField)
           out == EditPass(lines, hm, hp, hc)
       IN /\ has_min_os' = hm
          /\ has_platform' = hp
          /\ has_commands' = hc
          /\ result' = [k \in 1..Len(out) |-> out[k][1]]
          /\ origin' = [k \in 1..Len(out) |-> out[k][2]]
    /\ pc' = "validate"
    /\ UNCHANGED <<file, lines, exit, err, errField, orig, run, openedW>>

\* the post-edit check of the joined output
Validate ==
    /\ pc = "validate"
    /\ LET missing == FirstMissing(Join(result)) IN
       IF missing # ""
       THEN Fail("anchor", missing)
       ELSE /\ pc' = "open_w"
            /\ UNCHANGED <<exit, err, errField>>
    /\ UNCHANGED <<file, lines, has_min_os, has_platform, has_commands,
                   result, origin, orig, run, openedW>>

\* open(filepath, "w") succeeds: the file is truncated
OpenWriteOk ==
    /\ pc = "open_w"
    /\ file' = ""
    /\ openedW' = TRUE
    /\ pc' = "write"
    /\ UNCHANGED <<lines, has_min_os, has_platform, has_commands,
                   result, origin, exit, err, errField, orig, run>>

\* open(filepath, "w") raises OSError: the file is not touched
OpenWriteFail ==
    /\ pc = "open_w"
    /\ Fail("write", "")
    /\ UNCHANGED <<file, lines, has_min_os, has_platform, has_commands,
                   result, origin, orig, run, openedW>>

\* f.writelines(result) and the close succeed; enhance returns (status 0)
WriteOk ==
    /\ pc = "write"
    /\ file' = WriteLines(result)
    /\ pc' = "done"
    /\ exit' = 0
    /\ UNCHANGED <<lines, has_min_os, has_platform, has_commands,
                   result, origin, err, errField, orig, run, openedW>>

\* f.writelines(result) or the close raises OSError after k lines reached
\* the file
WriteFail ==
    /\ pc = "write"
    /\ \E k \in 0..Len(result) : file' = WriteLines(SubSeq(result, 1, k))
    /\ Fail("write", "")
    /\ UNCHANGED <<lines, has_min_os, has_platform, has_commands,
                   result, origin, orig, run, openedW>>

\* the script is run again on the file a successful run left
Rerun ==
    /\ pc = "done"
    /\ exit = 0
    /\ run = 1
    /\ run' = run + 1
    /\ orig' = file
    /\ pc' = "main"
    /\ lines' = <<>>
    /\ has_min_os' = FALSE
    /\ has_platform' = FALSE
    /\ has_commands' = FALSE
    /\ result' = <<>>
    /\ origin' = <<>>
    /\ exit' = -1
    /\ err' = "none"
    /\ errField' = ""
    /\ openedW' = FALSE
    /\ UNCHANGED file

Next ==
    \/ MainUsage
    \/ MainCall
    \/ ReadOk
    \/ ReadFail
    \/ TypeGuard
    \/ Edit
    \/ Validate
    \/ OpenWriteOk
    \/ OpenWriteFail
    \/ WriteOk
    \/ WriteFail
    \/ Rerun

Spec == Init /\ [][Next]_vars

TypeOK ==
    /\ pc \in {"main", "read", "type", "edit", "validate", "open_w", "write", "done"}
    /\ exit \in {-1, 0, 1}
    /\ err \in {"none", "usage", "read", "type", "anchor", "write"}
    /\ run \in {1, 2}
    /\ Len(result) = Len(origin)

\* ------------------------------------------------- vocabulary of the claims
\* number of lines of ls that start with p
PrefixCount(ls, p) == Cardinality({ i \in 1..Len(ls) : StartsWith(ls[i], p) })

\* number of places of the text at which p occurs
Occurrences(text, p) ==
    Cardinality({ i \in 1..(Len(text) - Len(p) + 1) : SubSeq(text, i, i + Len(p) - 1) = p })

FieldSet == { Fields[k] : k \in 1..Len(Fields) }

Inserted == { MinOSLine, PlatformLine, PlatformItem, CommandsLine, CommandsItem }

\* the run ended on an error of its environment: wrong argument count, or
\* the operating system refused to open, read or write the file
EnvFailure == err \in {"usage", "read", "write"}

\* the lines of the file were read (lines holds them)
WasRead == pc \in {"type", "edit", "validate", "open_w", "write"}
              \/ (pc = "done" /\ err \in {"none", "type", "anchor", "write"})

\* the edit pass has run (result and origin hold its output)
Edited == pc \in {"validate", "open_w", "write"}
              \/ (pc = "done" /\ err \in {"none", "anchor", "write"})

\* result[k] is an original line that starts with p
IsOriginal(k, p) == k \in 1..Len(result) /\ origin[k] # 0 /\ StartsWith(result[k], p)

\* result[k] is the inserted literal l
IsInserted(k, l) == k \in 1..Len(result) /\ origin[k] = 0 /\ result[k] = l

ScenarioInput ==
    << "ManifestType: installer\n", "PackageVersion: 1.2.3\n", "Installers:\n", "- Arch: x64\n" >>

ScenarioOutput ==
    << "ManifestType: installer\n", "PackageVersion: 1.2.3\n",
       "MinimumOSVersion: 10.0.17763.0\n", "Platform:\n", "  - Windows.Desktop\n",
       "Commands:\n", "  - invowk\n", "Installers:\n", "- Arch: x64\n" >>

\* ------------------------------------------------------------------ C1
\* C1 (idempotence): a run on the file written by a successful run succeeds
\* and leaves the file byte-for-byte as it found it.
C1_Idempotent ==
    (run > 1 /\ pc = "done" /\ ~EnvFailure) => (exit = 0 /\ file = orig)

\* ------------------------------------------------------------------ C2
\* C2 (type guard): when no line of the file starts with
\* "ManifestType: installer" the file is never opened for writing, its
\* content stays what it was, and the run ends with exit status 1.
C2_TypeGuard ==
    /\ ~WasRead => (~openedW /\ file = orig /\ (pc = "done" => exit = 1))
    /\ (WasRead /\ ~AnyStartsWith(lines, ManifestTypePrefix)) =>
          /\ lines = ReadLines(orig)
          /\ ~openedW
          /\ file = orig
          /\ pc = "done" => (exit = 1 /\ err = "type")

C2_Witness ==
    /\ pc = "done"
    /\ err = "type"
    /\ AnyStartsWith(lines, PackageVersionPrefix)
    /\ AnyStartsWith(lines, InstallersPrefix)
    /\ ~AnyStartsWith(lines, MinOSField)

\* ------------------------------------------------------------------ C3
\* C3 as stated (completeness): an installer manifest with a PackageVersion
\* line and an Installers line is enhanced with status 0 and the written text
\* contains each of the three markers exactly once.
C3_Completeness ==
    ( /\ pc = "done"
      /\ ~EnvFailure
      /\ AnyStartsWith(lines, ManifestTypePrefix)
      /\ AnyStartsWith(lines, PackageVersionPrefix)
      /\ AnyStartsWith(lines, InstallersPrefix) )
    => ( /\ exit = 0
         /\ \A f \in FieldSet : Occurrences(file, f) = 1 )

\* the manifest has each anchor on exactly one line, and each marker at most
\* once in its text and then at the start of a line
C3_WellFormed ==
    /\ PrefixCount(lines, PackageVersionPrefix) = 1
    /\ PrefixCount(lines, InstallersPrefix) = 1
    /\ \A f \in FieldSet :
          /\ Occurrences(Join(lines), f) <= 1
          /\ Occurrences(Join(lines), f) = 1 => AnyStartsWith(lines, f)

\* C3 as amended: an installer manifest with exactly one PackageVersion line
\* and exactly one Installers line, in which each marker occurs at most once
\* and then at the start of a line, is enhanced with status 0 (unless the
\* environment fails the run) and the written text contains each of the three
\* markers exactly once.
C3_CompletenessWellFormed ==
    ( /\ pc = "done"
      /\ ~EnvFailure
      /\ AnyStartsWith(lines, ManifestTypePrefix)
      /\ C3_WellFormed )
    => ( /\ exit = 0
         /\ \A f \in FieldSet : Occurrences(file, f) = 1 )

C3_Witness ==
    /\ pc = "done"
    /\ exit = 0
    /\ run = 1
    /\ C3_WellFormed
    /\ ~has_min_os /\ ~has_platform /\ ~has_commands
    /\ \A f \in FieldSet : Occurrences(file, f) = 1

\* ------------------------------------------------------------------ C4
\* C4 (insertion position): every inserted MinimumOSVersion / Platform line
\* directly follows the PackageVersion line (MinimumOSVersion first, then the
\* Platform block), the inserted Commands block directly precedes the
\* Installers line, nothing else is inserted, a successful run writes exactly
\* these lines, and the scenario input yields the nine-line scenario output.
C4_InsertionPosition ==
    /\ \A k \in 1..Len(result) :
          /\ origin[k] = 0 => result[k] \in Inserted
          /\ IsInserted(k, MinOSLine) => IsOriginal(k - 1, PackageVersionPrefix)
          /\ IsInserted(k, PlatformLine) =>
                \/ IsOriginal(k - 1, PackageVersionPrefix)
                \/ IsInserted(k - 1, MinOSLine)
          /\ IsInserted(k, PlatformItem) => IsInserted(k - 1, PlatformLine)
          /\ IsInserted(k, CommandsLine) => IsInserted(k + 1, CommandsItem)
          /\ IsInserted(k, CommandsItem) =>
                /\ IsInserted(k - 1, CommandsLine)
                /\ IsOriginal(k + 1, InstallersPrefix)
    /\ (pc = "done" /\ exit = 0) => file = Join(result)
    /\ (Edited /\ lines = ScenarioInput) => result = ScenarioOutput

C4_Witness ==
    /\ pc = "done"
    /\ exit = 0
    /\ lines = ScenarioInput
    /\ file = Join(ScenarioOutput)

\* ------------------------------------------------------------------ C5
\* C5 (missing anchor): an installer manifest without a PackageVersion line
\* in which "MinimumOSVersion:" or "Platform:" does not occur ends with status
\* 1 on the anchor-not-found error that names the first missing field, in the
\* order MinimumOSVersion, Platform, Commands, and the file is never opened
\* for writing and keeps its content.
C5_MissingAnchorFails ==
    ( /\ pc = "done"
      /\ WasRead
      /\ AnyStartsWith(lines, ManifestTypePrefix)
      /\ ~AnyStartsWith(lines, PackageVersionPrefix)
      /\ ~Contains(Join(lines), MinOSField) \/ ~Contains(Join(lines), PlatformField) )
    => ( /\ exit = 1
         /\ err = "anchor"
         /\ errField = (IF ~Contains(Join(lines), MinOSField) THEN MinOSField ELSE PlatformField)
         /\ ~openedW
         /\ file = orig )

C5_Witness ==
    /\ pc = "done"
    /\ err = "anchor"
    /\ errField = PlatformField
    /\ AnyStartsWith(lines, MinOSField)
    /\ AnyStartsWith(lines, InstallersPrefix)
    /\ ~AnyStartsWith(lines, PackageVersionPrefix)
    /\ ~has_commands
    /\ file = orig

\* ------------------------------------------------------------------ C6
\* C6 (no partial success): a run ends either with status 0 and the complete
\* enhanced lines in the file, or with status 1 and the file as it was.
C6_NoPartialSuccess ==
    pc = "done" =>
        \/ exit = 0 /\ file = Join(result)
        \/ exit = 1 /\ file = orig

\* ------------------------------------------------------------------ C7
\* C7 (selective insertion): a field's lines are inserted only when no
\* original line starts with its prefix; with MinimumOSVersion there and
\* Platform not, each PackageVersion anchor is followed by the two-line
\* Platform block alone and the number of MinimumOSVersion lines stays what it
\* was (in the result and in the written file); symmetrically for Platform
\* there and MinimumOSVersion not.
C7_SelectiveInsertion ==
    Edited =>
      /\ \A k \in 1..Len(result) :
            /\ IsInserted(k, MinOSLine) => ~AnyStartsWith(lines, MinOSField)
            /\ (IsInserted(k, PlatformLine) \/ IsInserted(k, PlatformItem))
                  => ~AnyStartsWith(lines, PlatformField)
            /\ (IsInserted(k, CommandsLine) \/ IsInserted(k, CommandsItem))
                  => ~AnyStartsWith(lines, CommandsField)
      /\ (AnyStartsWith(lines, MinOSField) /\ ~AnyStartsWith(lines, PlatformField)) =>
            /\ \A k \in 1..Len(result) : IsOriginal(k, PackageVersionPrefix) =>
                  /\ IsInserted(k + 1, PlatformLine)
                  /\ IsInserted(k + 2, PlatformItem)
                  /\ ~IsInserted(k + 3, MinOSLine)
            /\ PrefixCount(result, MinOSField) = PrefixCount(lines, MinOSField)
            /\ (pc = "done" /\ exit = 0) =>
                  PrefixCount(ReadLines(file), MinOSField) = PrefixCount(lines, MinOSField)
      /\ (AnyStartsWith(lines, PlatformField) /\ ~AnyStartsWith(lines, MinOSField)) =>
            /\ \A k \in 1..Len(result) : IsOriginal(k, PackageVersionPrefix) =>
                  /\ IsInserted(k + 1, MinOSLine)
                  /\ ~IsInserted(k + 2, PlatformLine)
            /\ PrefixCount(result, PlatformField) = PrefixCount(lines, PlatformField)
            /\ (pc = "done" /\ exit = 0) =>
                  PrefixCount(ReadLines(file), PlatformField) = PrefixCount(lines, PlatformField)

C7_Witness ==
    /\ pc = "done"
    /\ exit = 0
    /\ has_min_os
    /\ ~has_platform
    /\ \E k \in 1..Len(result) :
          IsOriginal(k, PackageVersionPrefix) /\ IsInserted(k + 1, PlatformLine)

\* ------------------------------------------------------------------ C8
\* C8 (no-op): an installer manifest in which some line starts with each of
\* the three markers ends with status 0 (unless the environment fails the
\* run) and the lines written are the lines read; a file without "\r" is
\* rewritten byte for byte.
C8_NoOpWhenEnhanced ==
    ( /\ pc = "done"
      /\ ~EnvFailure
      /\ AnyStartsWith(lines, ManifestTypePrefix)
      /\ \A f \in FieldSet : AnyStartsWith(lines, f) )
    => ( /\ exit = 0
         /\ result = lines
         /\ ReadLines(file) = lines
         /\ ~Contains(orig, "\r") => file = orig )

C8_Witness ==
    /\ pc = "done"
    /\ exit = 0
    /\ has_min_os /\ has_platform /\ has_commands
    /\ AnyStartsWith(lines, PackageVersionPrefix)
    /\ AnyStartsWith(lines, InstallersPrefix)
    /\ result = lines

\* ------------------------------------------------------------------ C9
\* C9 (content preservation): the result of the edit pass holds every
\* original line, unchanged and in order; removing the inserted literals from
\* it gives the original lines back.
C9_ContentPreserved ==
    Edited =>
      /\ SelectSeq(origin, LAMBDA o : o # 0) = [i \in 1..Len(lines) |-> i]
      /\ \A k \in 1..Len(result) :
            /\ origin[k] # 0 => result[k] = lines[origin[k]]
            /\ origin[k] = 0 => result[k] \in Inserted

C9_Witness ==
    /\ pc = "done"
    /\ exit = 0
    /\ Len(result) = Len(lines) + 5
    /\ \E k \in 1..Len(result) : IsOriginal(k, InstallersPrefix)

\* ------------------------------------------------------------------ C10
\* C10 (validation agrees with detection): the file a run with status 0
\* wrote has, for each of the three markers, a line that starts with it.
C10_ValidatedMeansDetected ==
    (pc = "done" /\ exit = 0) =>
        \A f \in FieldSet : AnyStartsWith(ReadLines(file), f)
====
